---- MODULE Spec2Model ----
(***************************************************************************)
(* A model of CodEval's grading engine (codeval.py): the descriptor        *)
(* mini-language read by CanvasHandler.get_valid_test_file, the regrade    *)
(* decision of CanvasHandler.should_check_submission, the two-phase        *)
(* execution of CanvasHandler.evaluate and the per-assignment and          *)
(* per-submission loops of CanvasHandler.grade_submissions.                *)
(*                                                                         *)
(* Exceptions are modelled by the name of their class ("None" when         *)
(* nothing was raised).  Text is modelled as a sequence of chunks, one     *)
(* chunk per producer of the text.                                         *)
(***************************************************************************)
EXTENDS Integers, Sequences, FiniteSets, TLC

(***************************************************************************)
(* Bounds of the model.                                                    *)
(***************************************************************************)
MaxAssignments == 2
MaxSubmissions == 2
MaxLines == 2
MaxParses == 2
MaxPasses == 2
MaxComments == 2

(***************************************************************************)
(* Program constants.                                                      *)
(***************************************************************************)
DefaultCompileTimeout == 20
CODEVAL_FOLDER == "course files/CodEval"
CODEVAL_SUFFIX == ".codeval"
DefaultEntryPoint == "./evaluate.sh"
AGMarker == "[AG]"

VARIABLES
    config,                 \* get_config(): force, dry_run, copy_tmpdir
    run_keys,               \* the keys present in the [RUN] section of codeval.ini
    pass,                   \* which run of the program over the course this is
    pc,                     \* where grade_submissions stands
    exit_code,              \* the status the process exited with, -1 while it runs
    compile_timeout,        \* module global compile_timeout
    has_distributed_tests,  \* module global has_distributed_tests
    executable,             \* self.executable, "None" or a file name
    aIdx,                   \* how many assignments get_assignments has yielded so far
    descriptor,             \* the descriptor a run over one assignment was given
    directives,             \* the keywords that lead a line of the current descriptor
    missing_executable,     \* the names its USING lines give that dest_dir lacks
    fixed_files,            \* the names in temp_fixed
    sIdx,                   \* how many submissions of it have been yielded so far
    hadFailure,             \* an earlier submission of this assignment failed in the try block
    aborted,                \* the stage whose exception last reached the outer except
    sub,                    \* the submission under the regrade decision
    evaluation,             \* what evaluate did for the current submission
    caught,                 \* the class of the exception the except of line 196 caught
    message,                \* the report text of the current submission
    events,                 \* the calls made for the current submission, in order
    tmpdirs,                \* the temporary directories that exist
    workdir,                \* the files of the current submission's tmpdir and whose they are
    report                  \* what became of the current submission's report

vars == <<config, run_keys, pass, pc, exit_code, compile_timeout, has_distributed_tests,
          executable, aIdx, descriptor, directives, missing_executable, fixed_files,
          sIdx,
          hadFailure, aborted, sub, evaluation, caught, message, events, tmpdirs,
          workdir, report>>

(***************************************************************************)
(* Exceptions.                                                             *)
(***************************************************************************)
\* sys.exit raises SystemExit, which derives from BaseException only.
BaseExceptionsOnly == {"SystemExit"}

\* `except Exception` catches every class but those.
IsException(cls) == cls # "None" /\ cls \notin BaseExceptionsOnly

\* Mutant of InnerExcept: the clause names subprocess.TimeoutExpired alone.
InnerExcept_TimeoutOnly(cls) == cls = "TimeoutExpired"

\* Line 196: the except clause around the grading of one submission.
InnerExcept(cls) == IsException(cls)

\* Mutant of PostExcept: the post is made outside any try.
PostExcept_Nothing(cls) == FALSE

\* Line 212: the except clause around the post of the report.
PostExcept(cls) == IsException(cls)

\* Line 215: the except clause around the work on one assignment.
OuterExcept(cls) == IsException(cls)

\* commons.errorWithException logs the message and raises.
errorWithException == "EnvironmentError"

\* _check_config: sys.exit(1) when the section or the key is missing.
_check_config(keys, key) == IF key \in keys THEN "None" ELSE "SystemExit"

\* _check_distributed_config: _check_config for dist_command, then host_ip.
_check_distributed_config(keys) ==
    IF _check_config(keys, "dist_command") # "None"
    THEN _check_config(keys, "dist_command")
    ELSE _check_config(keys, "host_ip")

(***************************************************************************)
(* The CodEval folder of the course: the display names of its files (a     *)
(* name may occur twice) and what the archives among them hold.            *)
(***************************************************************************)
FolderFiles == <<"extra.zip", "dup.zip", "dup.zip">>

ZipContents(name) == IF name = "extra.zip" THEN {"run.sh"} ELSE {}

\* get_file: the files whose display name is file_name; exactly one must match.
get_file(files, file_name) ==
    LET filtered_files == {i \in DOMAIN files : files[i] = file_name}
    IN  IF file_name = "" THEN errorWithException
        ELSE IF Cardinality(filtered_files) = 0 THEN errorWithException
        ELSE IF Cardinality(filtered_files) > 1 THEN errorWithException
        ELSE "None"

\* unzip(path, dest, delete=True): the archive's files join dest, the archive goes.
unzip(files, archive) == files \cup ZipContents(archive)

(***************************************************************************)
(* The descriptor.  A line is the sequence of its tokens after strip() and *)
(* split(" "); the blank line is <<>>.                                     *)
(***************************************************************************)
Lines ==
    { <<>>,
      <<"Z", "extra.zip">>,
      <<"Z", "missing.zip">>,
      <<"CTO", "45">>,
      <<"CTO", "10">>,
      <<"USING", "run.sh">>,
      <<"--DT--">>,
      <<"T", "tests">> }

RECURSIVE SeqsUpTo(_, _)
SeqsUpTo(S, n) ==
    IF n = 0 THEN {<<>>}
    ELSE LET shorter == SeqsUpTo(S, n - 1)
         IN  shorter \cup {Append(s, x) : s \in shorter, x \in S}

Descriptors == SeqsUpTo(Lines, MaxLines)

\* int(): the decimal numerals the descriptors use; anything else is a ValueError.
IntOf == [t \in {"45", "10"} |-> IF t = "45" THEN 45 ELSE 10]

\* "".join(tokens)
RECURSIVE Join(_)
Join(tokens) == IF tokens = <<>> THEN "" ELSE Head(tokens) \o Join(Tail(tokens))

\* The keywords that lead a line of the descriptor.
Keywords(lines) ==
    {lines[i][1] : i \in {j \in DOMAIN lines : lines[j] # <<>>}}
        \cap {"CTO", "USING", "--DT--"}

\* The parsing state: the two globals, self.executable, the listing of dest_dir
\* and the exception raised, if any.
ParseState(timeout, dt, exe, files) ==
    [compile_timeout |-> timeout, has_distributed_tests |-> dt,
     executable |-> exe, files |-> files, raised |-> "None"]

\* Mutant of UsingFound: the listing of dest_dir is not consulted.
UsingFound_Unchecked(file_name, files) == TRUE

\* Line 132: whether dest_dir lists the file a USING line names.
UsingFound(file_name, files) == file_name \in files

\* What dest_dir holds when line i of the descriptor is read: the descriptor
\* itself and what the archives of the Z lines before it held.
FilesBefore(lines, i) ==
    {"testcases.txt"} \cup
    UNION {ZipContents(Join(Tail(lines[j]))) :
              j \in {k \in 1..(i - 1) :
                        /\ lines[k] # <<>>
                        /\ lines[k][1] = "Z"
                        /\ get_file(FolderFiles, Join(Tail(lines[k]))) = "None"}}

\* The names the USING lines of the descriptor give that dest_dir lacks then.
MissingExecutables(lines) ==
    {lines[i][2] :
        i \in {k \in DOMAIN lines :
                  /\ lines[k] # <<>>
                  /\ lines[k][1] = "USING"
                  /\ Len(lines[k]) >= 2
                  /\ lines[k][2] \notin FilesBefore(lines, k)}}

\* Mutant of ParseLine: a CTO line adds its seconds to the timeout in effect.
ParseLine_AddingTimeout(st, line, keys) ==
    IF line = <<>> THEN st
    ELSE IF line[1] = "Z" THEN
        IF get_file(FolderFiles, Join(Tail(line))) # "None"
        THEN [st EXCEPT !.raised = get_file(FolderFiles, Join(Tail(line)))]
        ELSE [st EXCEPT !.files = unzip(@, Join(Tail(line)))]
    ELSE IF line[1] = "CTO" THEN
        IF Len(line) < 2 THEN [st EXCEPT !.raised = "IndexError"]
        ELSE IF line[2] \notin DOMAIN IntOf THEN [st EXCEPT !.raised = "ValueError"]
        ELSE [st EXCEPT !.compile_timeout = @ + IntOf[line[2]]]
    ELSE IF line[1] = "USING" THEN
        IF Len(line) < 2 THEN [st EXCEPT !.raised = "IndexError"]
        ELSE IF ~UsingFound(line[2], st.files) THEN [st EXCEPT !.raised = errorWithException]
        ELSE [st EXCEPT !.executable = line[2]]
    ELSE IF line[1] = "--DT--" THEN
        [st EXCEPT !.has_distributed_tests = TRUE,
                   !.raised = _check_distributed_config(keys)]
    ELSE st

\* One turn of the loop over the descriptor's lines.
ParseLine(st, line, keys) ==
    IF line = <<>> THEN st
    ELSE IF line[1] = "Z" THEN
        LET file_name == Join(Tail(line))
            got == get_file(FolderFiles, file_name)
        IN  IF got # "None" THEN [st EXCEPT !.raised = got]
            ELSE [st EXCEPT !.files = unzip(@, file_name)]
    ELSE IF line[1] = "CTO" THEN
        IF Len(line) < 2 THEN [st EXCEPT !.raised = "IndexError"]
        ELSE IF line[2] \notin DOMAIN IntOf THEN [st EXCEPT !.raised = "ValueError"]
        ELSE [st EXCEPT !.compile_timeout = IntOf[line[2]]]
    ELSE IF line[1] = "USING" THEN
        IF Len(line) < 2 THEN [st EXCEPT !.raised = "IndexError"]
        ELSE IF ~UsingFound(line[2], st.files) THEN [st EXCEPT !.raised = errorWithException]
        ELSE [st EXCEPT !.executable = line[2]]
    ELSE IF line[1] = "--DT--" THEN
        [st EXCEPT !.has_distributed_tests = TRUE,
                   !.raised = _check_distributed_config(keys)]
    ELSE st

\* Mutant of ParseLines: the lines are read from the last to the first.
RECURSIVE ParseLines_Backwards(_, _, _)
ParseLines_Backwards(st, lines, keys) ==
    IF lines = <<>> \/ st.raised # "None" THEN st
    ELSE ParseLines_Backwards(ParseLine(st, lines[Len(lines)], keys),
                              SubSeq(lines, 1, Len(lines) - 1), keys)

RECURSIVE ParseLines(_, _, _)
ParseLines(st, lines, keys) ==
    IF lines = <<>> \/ st.raised # "None" THEN st
    ELSE ParseLines(ParseLine(st, Head(lines), keys), Tail(lines), keys)

\* Mutant of get_valid_test_file: self.executable is not reset.
get_valid_test_file_KeepingExecutable(timeout, dt, exe, found, lines, keys) ==
    IF found # 1
    THEN [ParseState(timeout, dt, exe, {}) EXCEPT !.raised = errorWithException]
    ELSE ParseLines(ParseState(timeout, dt, exe, {"testcases.txt"}), lines, keys)

\* Mutant of get_valid_test_file: the archives of all the Z lines are fetched
\* before any other line is read.
get_valid_test_file_ArchivesFirst(timeout, dt, exe, found, lines, keys) ==
    IF found # 1
    THEN [ParseState(timeout, dt, exe, {}) EXCEPT !.raised = errorWithException]
    ELSE ParseLines(ParseState(timeout, dt, "None", {"testcases.txt"}),
                    SelectSeq(lines, LAMBDA l : l # <<>> /\ l[1] = "Z")
                        \o SelectSeq(lines, LAMBDA l : ~(l # <<>> /\ l[1] = "Z")),
                    keys)

\* get_valid_test_file: fetch the descriptor into dest_dir, reset self.executable,
\* then read the lines in order.  found is how many files of the folder carry the
\* descriptor's name.
get_valid_test_file(timeout, dt, exe, found, lines, keys) ==
    IF found # 1
    THEN [ParseState(timeout, dt, exe, {}) EXCEPT !.raised = errorWithException]
    ELSE ParseLines(ParseState(timeout, dt, "None", {"testcases.txt"}), lines, keys)

(***************************************************************************)
(* Submissions and the regrade decision.  Canvas gives submitted_at and a  *)
(* comment's created_at as ISO-8601 strings of one fixed layout, which     *)
(* Python compares character by character: the order of the instants.      *)
(* The instants are numbered here.                                         *)
(***************************************************************************)
Times == {1, 2, 3}

\* The text of a comment, a sequence of chunks: an automated report, or a note
\* somebody wrote.
CommentTexts == {<<AGMarker, "report">>, <<"note">>}

Comments == [comment : CommentTexts, created_at : Times]

Submissions ==
    [attachments : BOOLEAN,        \* hasattr(submission, 'attachments')
     submitted_at : Times,
     submission_comments : SeqsUpTo(Comments, MaxComments)]

NoSubmission ==
    [attachments |-> FALSE, submitted_at |-> 1, submission_comments |-> <<>>]

\* str.startswith
startswith(text, prefix) == Len(text) >= 1 /\ text[1] = prefix

\* The test of line 149 on one comment.
GradedAfter(comment, submitted_at) ==
    startswith(comment.comment, AGMarker) /\ comment.created_at > submitted_at

\* The loop of lines 148-150 over comments[::-1].
RECURSIVE ScanReversed(_, _)
ScanReversed(comments, submitted_at) ==
    IF comments = <<>> THEN TRUE
    ELSE IF GradedAfter(comments[Len(comments)], submitted_at) THEN FALSE
    ELSE ScanReversed(SubSeq(comments, 1, Len(comments) - 1), submitted_at)

should_check_submission(submission) ==
    IF submission.submission_comments # <<>>
    THEN ScanReversed(submission.submission_comments, submission.submitted_at)
    ELSE TRUE

\* Mutant of grades: the attachments are not asked for.
grades_WithoutAttachments(submission, force) ==
    force \/ should_check_submission(submission)

\* Mutant of grades: the force option is not consulted.
grades_IgnoringForce(submission, force) ==
    submission.attachments /\ should_check_submission(submission)

\* The condition of lines 176-177.
grades(submission, force) ==
    submission.attachments /\ (force \/ should_check_submission(submission))

\* What that condition can come to over the submissions Canvas may hold.
DecisionsIfForced == {grades(s, TRUE) : s \in Submissions}
DecisionsUnlessForced == {grades(s, FALSE) : s \in Submissions}

(***************************************************************************)
(* Text and calls.                                                         *)
(***************************************************************************)
Chunk(src, text, seconds) == [src |-> src, text |-> text, seconds |-> seconds]

Event(op, seconds, arg, assignment, student) ==
    [op |-> op, seconds |-> seconds, arg |-> arg,
     assignment |-> assignment, student |-> student]

\* What the evaluation command may print.
LocalOutputs == {"text with NUL", "invalid utf-8"}

\* Mutant of TimeoutNotice: the notice gives the default timeout.
TimeoutNotice_Default(seconds) ==
    Chunk("notice", "TOOK LONGER THAN seconds to run. FAILED", DefaultCompileTimeout)

\* The line appended at line 275.
TimeoutNotice(seconds) ==
    Chunk("notice", "TOOK LONGER THAN seconds to run. FAILED", seconds)

\* bytes.decode()
decode(out) ==
    IF \E i \in DOMAIN out : out[i].text = "invalid utf-8"
    THEN [raised |-> "UnicodeDecodeError", text |-> <<>>]
    ELSE [raised |-> "None", text |-> out]

\* str(e)
str(cls) == <<Chunk("error", cls, 0)>>

\* message.replace("\0", "\\0")
replace_nul(text) ==
    [i \in DOMAIN text |->
        IF text[i].text = "text with NUL"
        THEN [text[i] EXCEPT !.text = "text with escaped NUL"]
        ELSE text[i]]

\* Mutant of text_comment: the message is posted as it is.
text_comment_Unmarked(text) == text

\* Line 211: f'[AG]\n{message}'
text_comment(text) == <<Chunk("marker", AGMarker, 0)>> \o text

\* distributed.mark_submission_as_inactive_if_present: bookkeeping that never raises.
mark_submission_as_inactive_if_present(assignment_id, student_id) ==
    <<Event("mark_inactive", 0, "", assignment_id, student_id)>>

\* distributed.run_distributed_tests: its output, or the exception it raised.
run_distributed_tests(outcome) ==
    IF outcome = "raise"
    THEN [raised |-> "DistributedTestError", out |-> <<>>]
    ELSE [raised |-> "None", out |-> <<Chunk("distributed", "text", 0)>>]

(***************************************************************************)
(* evaluate.  env is what the child processes and the remote host do.      *)
(***************************************************************************)
EvalEnv(pre, cmd, out, dist) == [pre |-> pre, cmd |-> cmd, out |-> out, dist |-> dist]

\* A precommand that fails, a command that fails, a command that exits zero.
EvalEnvs ==
    {EvalEnv(pre, "zero", "text with NUL", "ok") : pre \in {"stderr", "timeout"}}
    \cup {EvalEnv("ok", cmd, out, "ok") : cmd \in {"nonzero", "timeout"}, out \in LocalOutputs}
    \cup {EvalEnv("ok", "zero", out, dist) : out \in LocalOutputs, dist \in {"ok", "raise"}}

\* What evaluate leaves: its output or the exception it raised, how the command
\* ended, the calls it made, and the child processes it started that still run.
EvalResult(out, raised, cmd, ev) ==
    [out |-> out, raised |-> raised, cmd |-> cmd, events |-> ev, running |-> {}]

\* Mutant of Precommand: what the precommand writes to stderr is not looked at.
Precommand_IgnoringStderr(keys, timeout, env) ==
    IF "precommand" \notin keys THEN EvalResult(<<>>, "None", "none", <<>>)
    ELSE LET ran == <<Event("precommand", timeout, env.pre, 0, 0)>>
         IN  IF env.pre = "timeout"
             THEN [EvalResult(<<>>, "TimeoutExpired", "none", ran)
                      EXCEPT !.running = {"precommand"}]
             ELSE EvalResult(<<>>, "None", "none", ran)

\* Lines 246-253: the precommand, when [RUN] has one.  communicate(timeout=...)
\* raises TimeoutExpired without ending the child, and nothing here ends it.
\* The call is recorded with what the child did.
Precommand(keys, timeout, env) ==
    IF "precommand" \notin keys THEN EvalResult(<<>>, "None", "none", <<>>)
    ELSE LET ran == <<Event("precommand", timeout, env.pre, 0, 0)>>
         IN  IF env.pre = "timeout"
             THEN [EvalResult(<<>>, "TimeoutExpired", "none", ran)
                      EXCEPT !.running = {"precommand"}]
             ELSE IF env.pre = "stderr" THEN EvalResult(<<>>, errorWithException, "none", ran)
             ELSE EvalResult(<<>>, "None", "none", ran)

\* Lines 256-259: what EVALUATE is replaced by.
EntryPoint(exe) == IF exe # "None" THEN exe ELSE DefaultEntryPoint

\* Mutant of RunsDistributed: the flag is not consulted.
RunsDistributed_Always(dt) == TRUE

\* Line 281: whether the distributed pass follows a command that exited zero.
RunsDistributed(dt) == dt

\* Lines 263-285: the evaluation command and what follows it.
Command(exe, timeout, dt, assignment_id, student_id, env) ==
    LET ran == <<Event("command", timeout, EntryPoint(exe), 0, 0)>>
        out == <<Chunk("local", env.out, 0)>>
    IN  IF env.cmd = "timeout" THEN
            EvalResult(out \o <<TimeoutNotice(timeout)>>, "None", "timeout",
                       ran \o <<Event("kill", 0, "", 0, 0)>>
                           \o mark_submission_as_inactive_if_present(assignment_id, student_id))
        ELSE IF env.cmd = "nonzero" THEN
            EvalResult(out, "None", "nonzero",
                       ran \o mark_submission_as_inactive_if_present(assignment_id, student_id))
        ELSE IF RunsDistributed(dt) THEN
            LET d == run_distributed_tests(env.dist)
                called == ran \o <<Event("distributed", 0, "", assignment_id, student_id)>>
            IN  IF d.raised # "None" THEN EvalResult(<<>>, d.raised, "zero", called)
                ELSE EvalResult(out \o d.out, "None", "zero", called)
        ELSE EvalResult(out, "None", "zero", ran)

\* Mutant of evaluate: a failed command marks the submission inactive only when
\* has_distributed_tests is set.
evaluate_MarkIfDistributed(exe, timeout, dt, keys, assignment_id, student_id, env) ==
    LET p == Precommand(keys, timeout, env)
        c == Command(exe, timeout, dt, assignment_id, student_id, env)
        kept == IF dt THEN c.events
                ELSE SelectSeq(c.events, LAMBDA e : e.op # "mark_inactive")
    IN  IF p.raised # "None" THEN p
        ELSE [c EXCEPT !.events = p.events \o kept]

evaluate(exe, timeout, dt, keys, assignment_id, student_id, env) ==
    LET p == Precommand(keys, timeout, env)
    IN  IF p.raised # "None" THEN p
        ELSE LET c == Command(exe, timeout, dt, assignment_id, student_id, env)
             IN  [c EXCEPT !.events = p.events \o @]

(***************************************************************************)
(* The body of the try block of lines 182-195: fetch and unpack the        *)
(* attachments, lay the fixed files over them, evaluate, decode.           *)
(***************************************************************************)
\* What an attachment of a submission holds.
AttachmentFiles(name) ==
    IF name = "sub.zip" THEN {"main.c", "run.sh"}
    ELSE IF name = "tests.zip" THEN {"testcases.txt"}
    ELSE {}

\* A file of a directory, and whether the fixed files or the student brought it.
File(name, origin) == [name |-> name, from |-> origin]

\* file_utils.unzip into tmpdir: the archive's files replace those of the same
\* name, the archive goes.
unzip_attachment(dir, attachment) ==
    {f \in dir : f.name \notin AttachmentFiles(attachment)}
        \cup {File(n, "student") : n \in AttachmentFiles(attachment)}

\* Lines 219-222: each attachment in turn is fetched and unpacked.
RECURSIVE download_submission_attachments(_, _)
download_submission_attachments(dir, attachments) ==
    IF attachments = <<>> THEN dir
    ELSE download_submission_attachments(unzip_attachment(dir, Head(attachments)),
                                         Tail(attachments))

\* file_utils.copy_files_to_submission_dir: the files of temp_fixed are copied
\* into tmpdir, over those of the same name.
copy_files_to_submission_dir(fixed, dir) ==
    {f \in dir : f.name \notin fixed} \cup {File(n, "fixed") : n \in fixed}

\* Mutant of Workspace: the fixed files are copied before the attachments are
\* unpacked.
Workspace_FixedFirst(fixed, attachments) ==
    download_submission_attachments(copy_files_to_submission_dir(fixed, {}), attachments)

\* Lines 184-185: tmpdir once both calls have returned.
Workspace(fixed, attachments) ==
    copy_files_to_submission_dir(fixed, download_submission_attachments({}, attachments))

TryEnvs ==
    {[download |-> "raise", attachments |-> <<"sub.zip">>,
      eval |-> EvalEnv("ok", "zero", "text with NUL", "ok")]}
    \cup {[download |-> "ok", attachments |-> <<"sub.zip", "tests.zip">>, eval |-> e] :
              e \in EvalEnvs}
    \cup {[download |-> "ok", attachments |-> <<"sub.zip">>,
           eval |-> EvalEnv("ok", "zero", "text with NUL", "ok")]}

TryResult(raised, text, eval, ev, dir) ==
    [raised |-> raised, text |-> text, evaluation |-> eval, events |-> ev,
     workdir |-> dir]

NoEvaluation == [out |-> <<>>, raised |-> "None", cmd |-> "none", running |-> {}]

TryBody(exe, timeout, dt, keys, fixed, assignment_id, student_id, env) ==
    LET fetched == [i \in DOMAIN env.attachments |->
                       Event("download", 0, env.attachments[i], assignment_id, student_id)]
        copied == fetched \o <<Event("copy_fixed", 0, "", assignment_id, student_id)>>
    IN  IF env.download = "raise"
        THEN TryResult("DownloadError", <<>>, NoEvaluation, SubSeq(fetched, 1, 1), {})
        ELSE LET e == evaluate(exe, timeout, dt, keys, assignment_id, student_id, env.eval)
                 seen == [out |-> e.out, raised |-> e.raised, cmd |-> e.cmd,
                          running |-> e.running]
                 called == copied \o e.events
                 dir == Workspace(fixed, env.attachments)
             IN  IF e.raised # "None" THEN TryResult(e.raised, <<>>, seen, called, dir)
                 ELSE TryResult(decode(e.out).raised, decode(e.out).text, seen, called, dir)

(***************************************************************************)
(* The state of the run.                                                   *)
(***************************************************************************)
Configs == [force : BOOLEAN, dry_run : BOOLEAN, copy_tmpdir : BOOLEAN]

\* CanvasHandler.__init__ has checked that [RUN] holds command.
RunSections ==
    {{"command"} \cup P \cup D :
        P \in SUBSET {"precommand"},
        D \in {{}, {"dist_command"}, {"dist_command", "host_ip"}}}

NoReport == [status |-> "none", comment |-> <<>>]

DefaultMessage == <<Chunk("default", "problem grading assignment", 0)>>

cfgVars == <<config, run_keys, pass>>
globalVars == <<compile_timeout, has_distributed_tests, executable>>
assignVars == <<directives, missing_executable, fixed_files, sIdx, hadFailure>>
subVars == <<evaluation, caught, message, events, workdir, report>>
inputVars == <<descriptor, sub>>

\* The locals of one turn of the loop over the submissions, before it starts.
FreshSubmission ==
    /\ evaluation' = NoEvaluation
    /\ caught' = "None"
    /\ message' = <<>>
    /\ events' = <<>>
    /\ workdir' = {}
    /\ report' = NoReport

InitRun ==
    /\ pc = "start"
    /\ pass = 1
    /\ exit_code = -1
    /\ compile_timeout = DefaultCompileTimeout
    /\ has_distributed_tests = FALSE
    /\ executable = "None"
    /\ aIdx = 0
    /\ directives = {}
    /\ missing_executable = {}
    /\ fixed_files = {}
    /\ sIdx = 0
    /\ hadFailure = FALSE
    /\ aborted = "none"
    /\ evaluation = NoEvaluation
    /\ caught = "None"
    /\ message = <<>>
    /\ events = <<>>
    /\ tmpdirs = {}
    /\ workdir = {}
    /\ report = NoReport

Init ==
    /\ InitRun
    /\ config \in Configs
    /\ run_keys \in RunSections
    /\ descriptor = <<>>
    /\ sub = NoSubmission

\* The locals of one turn of the loop over the assignments, before it starts.
FreshAssignment ==
    /\ directives' = {}
    /\ missing_executable' = {}
    /\ fixed_files' = {}
    /\ sIdx' = 0
    /\ hadFailure' = FALSE

\* Mutant of Propagate: the directories outlive the exception.
Propagate_LeavingDirs(cls, stage) ==
    /\ tmpdirs' = tmpdirs
    /\ aborted' = stage
    /\ IF OuterExcept(cls)
       THEN pc' = "skipping" /\ exit_code' = exit_code
       ELSE pc' = "exited" /\ exit_code' = 1

\* An exception leaves the with blocks of the assignment (lines 172 and 178), which
\* remove their directories, and meets the except clause of line 215: the
\* assignment is skipped, or the exception ends the process.
Propagate(cls, stage) ==
    /\ tmpdirs' = {}
    /\ aborted' = stage
    /\ IF OuterExcept(cls)
       THEN pc' = "skipping" /\ exit_code' = exit_code
       ELSE pc' = "exited" /\ exit_code' = 1

(***************************************************************************)
(* grade_submissions.  The course has MaxAssignments assignments with a    *)
(* descriptor, each with MaxSubmissions submissions.                       *)
(***************************************************************************)
\* Lines 165-170: find the course and its descriptors.
Begin ==
    /\ pc = "start"
    /\ \E course \in {"found", "none or several"}, specs \in BOOLEAN :
          IF course # "found"
          THEN pc' = "exited" /\ exit_code' = 2
          ELSE IF ~specs
          THEN pc' = "done" /\ exit_code' = 0
          ELSE pc' = "assignments" /\ exit_code' = exit_code
    /\ UNCHANGED <<cfgVars, globalVars, aIdx, assignVars, aborted, subVars, tmpdirs,
                   inputVars>>

\* Lines 171-174: the next assignment, its temp_fixed and its descriptor d, of
\* which the folder holds `found` files.
PrepareAssignment(d, found) ==
    /\ pc = "assignments"
    /\ aIdx < MaxAssignments
    /\ aIdx' = aIdx + 1
    /\ LET st == get_valid_test_file(compile_timeout, has_distributed_tests,
                                     executable, found, d, run_keys)
       IN  /\ compile_timeout' = st.compile_timeout
           /\ has_distributed_tests' = st.has_distributed_tests
           /\ executable' = st.executable
           /\ hadFailure' = FALSE
           /\ sIdx' = 0
           /\ directives' = Keywords(d)
           /\ missing_executable' = MissingExecutables(d)
           /\ IF st.raised = "None"
              THEN /\ pc' = "submissions"
                   /\ exit_code' = exit_code
                   /\ aborted' = "none"
                   /\ tmpdirs' = {"temp_fixed"}
                   /\ fixed_files' = st.files
              ELSE /\ Propagate(st.raised, "prepare")
                   /\ fixed_files' = {}
    /\ UNCHANGED <<cfgVars, subVars, inputVars>>

NextAssignment ==
    \/ \E d \in Descriptors : PrepareAssignment(d, 1)
    \/ \E found \in {0, 2} : PrepareAssignment(<<>>, found)

\* Lines 215-217: the assignment is skipped with a warning, the loop goes on.
SkipAssignment ==
    /\ pc = "skipping"
    /\ pc' = "assignments"
    /\ aborted' = "none"
    /\ FreshAssignment
    /\ UNCHANGED <<cfgVars, globalVars, aIdx, exit_code, subVars, tmpdirs, inputVars>>

\* The loop of line 171 is exhausted.
Finish ==
    /\ pc = "assignments"
    /\ aIdx = MaxAssignments
    /\ pc' = "done"
    /\ exit_code' = 0
    /\ UNCHANGED <<cfgVars, globalVars, aIdx, assignVars, aborted, subVars, tmpdirs,
                   inputVars>>

\* Lines 175-181: the next submission; when the condition g of lines 176-177
\* holds, its tmpdir is made and the default message set.
Decide(g) ==
    /\ sIdx < MaxSubmissions
    /\ sIdx' = sIdx + 1
    /\ IF g
       THEN /\ pc' = "grading"
            /\ tmpdirs' = tmpdirs \cup {"tmpdir"}
            /\ message' = DefaultMessage
       ELSE /\ pc' = "submissions"
            /\ tmpdirs' = tmpdirs
            /\ message' = message
    /\ UNCHANGED <<cfgVars, globalVars, aIdx, directives, missing_executable,
                   fixed_files, hadFailure, aborted, exit_code, evaluation, caught,
                   events, workdir, report, inputVars>>

NextSubmission ==
    /\ pc = "submissions"
    /\ \E g \in (IF config.force THEN DecisionsIfForced ELSE DecisionsUnlessForced) :
          Decide(g)

\* The loop of line 175 is exhausted: temp_fixed is removed.
EndAssignment ==
    /\ pc = "submissions"
    /\ sIdx = MaxSubmissions
    /\ pc' = "assignments"
    /\ tmpdirs' = {}
    /\ FreshAssignment
    /\ UNCHANGED <<cfgVars, globalVars, aIdx, aborted, exit_code, subVars, inputVars>>

\* Lines 182-199: the try block and its except clause.
GradeSubmission ==
    /\ pc = "grading"
    /\ \E env \in TryEnvs :
          LET t == TryBody(executable, compile_timeout, has_distributed_tests,
                           run_keys, fixed_files, aIdx, sIdx, env)
          IN  IF t.raised = "None"
              THEN /\ message' = t.text
                   /\ pc' = "reporting"
                   /\ evaluation' = t.evaluation
                   /\ events' = t.events
                   /\ workdir' = t.workdir
                   /\ UNCHANGED <<caught, report, tmpdirs, aborted, exit_code,
                                  assignVars>>
              ELSE IF InnerExcept(t.raised)
              THEN /\ message' = str(t.raised)
                   /\ caught' = t.raised
                   /\ hadFailure' = TRUE
                   /\ pc' = "reporting"
                   /\ evaluation' = t.evaluation
                   /\ events' = t.events
                   /\ workdir' = t.workdir
                   /\ UNCHANGED <<report, tmpdirs, aborted, exit_code, directives,
                                  missing_executable, fixed_files, sIdx>>
              ELSE /\ Propagate(t.raised, "grade")
                   /\ FreshSubmission
                   /\ FreshAssignment
    /\ UNCHANGED <<cfgVars, globalVars, aIdx, inputVars>>

\* Lines 201-213: keep a copy of tmpdir when asked to, then say the message or
\* post it as a comment.
Report ==
    /\ pc = "reporting"
    /\ \E copytree \in {"ok", "raise"}, edit \in {"ok", "raise"} :
          IF config.copy_tmpdir /\ copytree = "raise"
          THEN /\ Propagate("FileExistsError", "report")
               /\ FreshSubmission
               /\ FreshAssignment
          ELSE IF ~config.dry_run /\ edit = "raise" /\ ~PostExcept("CanvasException")
          THEN /\ Propagate("CanvasException", "post")
               /\ FreshSubmission
               /\ FreshAssignment
          ELSE /\ events' = IF config.copy_tmpdir
                            THEN Append(events, Event("copytree", 0, "", aIdx, sIdx))
                            ELSE events
               /\ pc' = "reported"
               /\ UNCHANGED <<tmpdirs, aborted, exit_code, evaluation, caught,
                              workdir, assignVars>>
               /\ IF config.dry_run
                  THEN /\ message' = message
                       /\ report' = [status |-> "said", comment |-> message]
                  ELSE /\ message' = replace_nul(message)
                       /\ report' =
                             IF edit = "raise"
                             THEN [status |-> "not posted", comment |-> <<>>]
                             ELSE [status |-> "posted",
                                   comment |-> text_comment(replace_nul(message))]
    /\ UNCHANGED <<cfgVars, globalVars, aIdx, inputVars>>

\* The with block of line 178 ends: tmpdir is removed.
CloseSubmission ==
    /\ pc = "reported"
    /\ pc' = "submissions"
    /\ tmpdirs' = tmpdirs \ {"tmpdir"}
    /\ FreshSubmission
    /\ UNCHANGED <<cfgVars, globalVars, aIdx, assignVars, aborted, exit_code,
                   inputVars>>

Next ==
    \/ Begin
    \/ NextAssignment
    \/ SkipAssignment
    \/ Finish
    \/ NextSubmission
    \/ EndAssignment
    \/ GradeSubmission
    \/ Report
    \/ CloseSubmission

Spec == Init /\ [][Next]_vars

(***************************************************************************)
(* The regrade decision on its own: a run that stands at the loop of line  *)
(* 175 of its first assignment, whose descriptor held no directive, with   *)
(* the submission the loop yields next known.                              *)
(***************************************************************************)
InitCheck ==
    /\ pc = "check"
    /\ pass = 1
    /\ exit_code = -1
    /\ compile_timeout = DefaultCompileTimeout
    /\ has_distributed_tests = FALSE
    /\ executable = "None"
    /\ aIdx = 1
    /\ directives = {}
    /\ missing_executable = {}
    /\ fixed_files = {"testcases.txt"}
    /\ sIdx = 0
    /\ hadFailure = FALSE
    /\ aborted = "none"
    /\ evaluation = NoEvaluation
    /\ caught = "None"
    /\ message = <<>>
    /\ events = <<>>
    /\ tmpdirs = {"temp_fixed"}
    /\ workdir = {}
    /\ report = NoReport
    /\ config \in {c \in Configs : ~c.copy_tmpdir}
    /\ run_keys = {"command"}
    /\ descriptor = <<>>
    /\ sub \in Submissions

\* Lines 175-181 for the submission sub.
CheckSubmission ==
    /\ pc = "check"
    /\ Decide(grades(sub, config.force))

NextCheck ==
    \/ CheckSubmission
    \/ GradeSubmission
    \/ Report

SpecCheck == InitCheck /\ [][NextCheck]_vars

(***************************************************************************)
(* Runs one after the other over the same submission, not submitted again  *)
(* in between: Canvas keeps the report a run posted as a comment of the    *)
(* submission, created when it was posted, and the next run, under options *)
(* of its own, finds it in submission_comments.                            *)
(***************************************************************************)
\* The text Canvas returns for a comment posted as chunks.
CommentOf(chunks) == [i \in DOMAIN chunks |-> chunks[i].text]

\* A run has posted its report; the next run starts and stands at the loop of
\* line 175.  The clock of Canvas does not go back.
NextPass ==
    /\ pc = "reported"
    /\ report.status = "posted"
    /\ pass < MaxPasses
    /\ pass' = pass + 1
    /\ \E t \in Times :
          /\ t >= sub.submitted_at
          /\ \A i \in DOMAIN sub.submission_comments :
                 sub.submission_comments[i].created_at <= t
          /\ sub' = [sub EXCEPT !.submission_comments =
                         Append(@, [comment |-> CommentOf(report.comment),
                                    created_at |-> t])]
    /\ config' \in {c \in Configs : ~c.copy_tmpdir}
    /\ pc' = "check"
    /\ sIdx' = 0
    /\ hadFailure' = FALSE
    /\ tmpdirs' = {"temp_fixed"}
    /\ FreshSubmission
    /\ UNCHANGED <<run_keys, globalVars, aIdx, directives, missing_executable,
                   fixed_files, aborted, exit_code, descriptor>>

NextRegrade ==
    \/ CheckSubmission
    \/ GradeSubmission
    \/ Report
    \/ NextPass

SpecRegrade == InitCheck /\ [][NextRegrade]_vars

(***************************************************************************)
(* The descriptor on its own: get_valid_test_file reads the same           *)
(* descriptor MaxParses times in succession, each time into a new          *)
(* temp_fixed, starting from globals an earlier assignment may have left.  *)
(***************************************************************************)
InitParse ==
    /\ pc = "parse"
    /\ pass = 1
    /\ exit_code = -1
    /\ compile_timeout \in {DefaultCompileTimeout} \cup {IntOf[t] : t \in DOMAIN IntOf}
    /\ has_distributed_tests \in BOOLEAN
    /\ executable \in {"None", "run.sh"}
    /\ aIdx = 0
    /\ directives = {}
    /\ missing_executable = {}
    /\ fixed_files = {}
    /\ sIdx = 0
    /\ hadFailure = FALSE
    /\ aborted = "none"
    /\ evaluation = NoEvaluation
    /\ caught = "None"
    /\ message = <<>>
    /\ events = <<>>
    /\ tmpdirs = {}
    /\ workdir = {}
    /\ report = NoReport
    /\ config = [force |-> FALSE, dry_run |-> FALSE, copy_tmpdir |-> FALSE]
    /\ run_keys \in RunSections
    /\ descriptor \in Descriptors
    /\ sub = NoSubmission

\* Lines 172-174 and 215-217 for the descriptor: it is read into a new temp_fixed;
\* an exception skips the assignment, sys.exit ends the process.
ParseDescriptor ==
    /\ pc = "parse"
    /\ aIdx < MaxParses
    /\ aIdx' = aIdx + 1
    /\ LET st == get_valid_test_file(compile_timeout, has_distributed_tests,
                                     executable, 1, descriptor, run_keys)
       IN  /\ compile_timeout' = st.compile_timeout
           /\ has_distributed_tests' = st.has_distributed_tests
           /\ executable' = st.executable
           /\ fixed_files' = st.files
           /\ directives' = Keywords(descriptor)
           /\ missing_executable' = MissingExecutables(descriptor)
           /\ aborted' = IF st.raised = "None" THEN "none" ELSE "prepare"
           /\ IF st.raised = "None" \/ OuterExcept(st.raised)
              THEN pc' = "parse" /\ exit_code' = exit_code
              ELSE pc' = "exited" /\ exit_code' = 1
    /\ UNCHANGED <<cfgVars, sIdx, hadFailure, subVars, tmpdirs, inputVars>>

NextParse == ParseDescriptor

SpecParse == InitParse /\ [][NextParse]_vars

(***************************************************************************)
(* Properties.                                                             *)
(***************************************************************************)
\* The calls of the current submission that are op.
Calls(op) == {i \in DOMAIN events : events[i].op = op}

\* The current submission is being graded, or was.
Graded ==
    \/ pc \in {"grading", "reporting", "reported"}
    \/ pc = "skipping" /\ aborted = "report"

\* The current submission was passed over: nothing ran, nothing was said.
PassedOver ==
    /\ pc = "submissions"
    /\ events = <<>>
    /\ evaluation = NoEvaluation
    /\ report = NoReport
    /\ tmpdirs = {"temp_fixed"}

\* C1: an exception raised while one submission is graded (by the download, by
\* the precommand, by evaluate, by the decoding) never reaches the assignment: it
\* becomes the text of that submission's report, the report is made, and the loop
\* over the submissions goes on to the later ones.
C1_SubmissionFailureIsolated ==
    /\ aborted # "grade"
    /\ (pc \in {"reporting", "reported"} /\ caught # "None")
          => /\ message = str(caught)
             /\ tmpdirs = {"temp_fixed", "tmpdir"}
    /\ (pc = "reported" /\ caught # "None")
          => report.status \in {"said", "posted", "not posted"}
    /\ (pc = "reported" /\ caught # "None" /\ report.status = "said")
          => report.comment = str(caught)
    /\ hadFailure
          => \/ pc \in {"submissions", "grading", "reporting", "reported"}
             \/ pc = "skipping" /\ aborted = "report"

\* A later submission is graded and its report made after an earlier one failed.
C1_Witness ==
    /\ hadFailure
    /\ caught = "None"
    /\ pc = "reported"
    /\ sIdx = MaxSubmissions
    /\ report.status = "posted"

\* C2: no failure of the preparation of an assignment ends the run: the
\* assignments after it are still processed.
C2_PrepareFailureNeverHalts ==
    /\ ~(pc = "exited" /\ aborted = "prepare")
    /\ pc \in {"done", "exited"} /\ exit_code # 2 /\ aIdx > 0 => aIdx = MaxAssignments

\* The submission has an automated-grade comment created after submitted_at.
HasGradeAfter(submission) ==
    \E i \in DOMAIN submission.submission_comments :
        /\ submission.submission_comments[i].comment[1] = AGMarker
        /\ submission.submission_comments[i].created_at > submission.submitted_at

\* The submission has an automated-grade comment created at submitted_at.
HasGradeAt(submission) ==
    \E i \in DOMAIN submission.submission_comments :
        /\ submission.submission_comments[i].comment[1] = AGMarker
        /\ submission.submission_comments[i].created_at = submission.submitted_at

\* C3 as stated: a submission with an automated-grade comment created after
\* submitted_at is passed over unless forced, and graded when forced.
C3_Original ==
    (pc # "check" /\ HasGradeAfter(sub))
        => IF config.force THEN Graded ELSE PassedOver

\* C3 as amended: such a submission is passed over unless forced; when forced it
\* is graded if it has attachments, and passed over if it has none.
C3_GradedAfterIsSkippedUnlessForced ==
    (pc # "check" /\ HasGradeAfter(sub))
        => IF config.force /\ sub.attachments THEN Graded ELSE PassedOver

\* A forced run grades a submission whose history of two comments ends with an
\* automated grade created after submitted_at.
C3_Witness ==
    /\ pc = "reported"
    /\ config.force
    /\ HasGradeAfter(sub)
    /\ Len(sub.submission_comments) = MaxComments

\* C4: unless forced, a submission with an automated-grade comment created at
\* submitted_at exactly is passed over.
C4_EqualTimestampIsGraded ==
    (pc # "check" /\ ~config.force /\ HasGradeAt(sub)) => PassedOver

\* C5: when the evaluation command outlasts the timeout, evaluate returns (no
\* exception of its own reaches the caller) and what it returns ends with the
\* timeout notice, which gives the timeout the command was run under.
C5_TimeoutIsReported ==
    evaluation.cmd = "timeout"
        => /\ evaluation.raised = "None"
           /\ caught \in {"None", "UnicodeDecodeError"}
           /\ pc \in {"reporting", "reported"}
           /\ \E c \in Calls("command") :
                 /\ events[c].seconds = compile_timeout
                 /\ evaluation.out # <<>>
                 /\ evaluation.out[Len(evaluation.out)].src = "notice"
                 /\ evaluation.out[Len(evaluation.out)].seconds = events[c].seconds

\* The command times out under a timeout a CTO line set.
C5_Witness ==
    /\ evaluation.cmd = "timeout"
    /\ compile_timeout = 45
    /\ pc = "reporting"

\* C6: an assignment whose descriptor has no CTO line runs its precommand and
\* its command under the default timeout.
C6_DefaultTimeoutWithoutCTO ==
    "CTO" \notin directives
        => \A i \in Calls("precommand") \cup Calls("command") :
              events[i].seconds = DefaultCompileTimeout

\* C7: the distributed pass runs only for an assignment whose own descriptor has
\* a --DT-- line.
C7_DistributedOnlyWithOwnDirective ==
    Calls("distributed") # {} => "--DT--" \in directives

\* C8: a command that exits non-zero or times out has the submission marked
\* inactive, once, for its assignment and student, after the command ran and
\* before evaluate returns, whatever has_distributed_tests is; a command that
\* exits zero has not.
C8_FailureMarksInactive ==
    /\ evaluation.cmd \in {"nonzero", "timeout"}
          => /\ evaluation.raised = "None"
             /\ Cardinality(Calls("mark_inactive")) = 1
             /\ \A m \in Calls("mark_inactive") :
                   /\ events[m].assignment = aIdx
                   /\ events[m].student = sIdx
                   /\ \E c \in Calls("command") : c < m
                   /\ \A k \in Calls("copytree") : m < k
    /\ evaluation.cmd \in {"zero", "none"} => Calls("mark_inactive") = {}

\* A command fails for an assignment without distributed tests.
C8_Witness ==
    /\ evaluation.cmd = "nonzero"
    /\ ~has_distributed_tests
    /\ pc = "reporting"

\* C9: the distributed pass runs exactly when the command exited zero and
\* has_distributed_tests is set; it runs after the command, and its output
\* follows the command's in what evaluate returns.
C9_DistributedAfterSuccess ==
    /\ Calls("distributed") # {} <=> (evaluation.cmd = "zero" /\ has_distributed_tests)
    /\ Cardinality(Calls("distributed")) <= 1
    /\ \A d \in Calls("distributed") : \E c \in Calls("command") : c < d
    /\ (Calls("distributed") # {} /\ evaluation.raised = "None")
          => /\ Len(evaluation.out) = 2
             /\ evaluation.out[1].src = "local"
             /\ evaluation.out[2].src = "distributed"
    /\ \A i \in DOMAIN evaluation.out :
          evaluation.out[i].src = "distributed" => Calls("distributed") # {}

\* The distributed pass ran and evaluate returned both outputs.
C9_Witness ==
    /\ Calls("distributed") # {}
    /\ evaluation.raised = "None"
    /\ pc = "reporting"

\* C10: when a USING line of the descriptor names a file that dest_dir lacks,
\* get_valid_test_file raises and the assignment is left before the loop over
\* its submissions: nothing is downloaded, evaluated or reported.
C10_MissingExecutableSkipsAssignment ==
    missing_executable # {}
        => /\ pc \in {"skipping", "exited"}
           /\ aborted = "prepare"
           /\ tmpdirs = {}
           /\ events = <<>>
           /\ evaluation = NoEvaluation
           /\ report = NoReport

\* The descriptor names run.sh, which no archive brought, and is skipped.
C10_Witness ==
    /\ missing_executable = {"run.sh"}
    /\ pc = "skipping"
    /\ "USING" \in directives

\* The lines of the descriptor that a keyword leads.
LinesOf(keyword) ==
    {i \in DOMAIN descriptor : descriptor[i] # <<>> /\ descriptor[i][1] = keyword}

\* The last of a non-empty set of line numbers.
Last(S) == CHOOSE i \in S : \A j \in S : j <= i

\* C11: after a descriptor with CTO lines has been read to its end, the timeout
\* is the value of the last CTO line.
C11_LastCTOWins ==
    (aIdx >= 1 /\ pc = "parse" /\ aborted = "none" /\ LinesOf("CTO") # {})
        => compile_timeout = IntOf[descriptor[Last(LinesOf("CTO"))][2]]

\* CTO 45 followed by CTO 10 has been read: the timeout is 10.
C11_Witness ==
    /\ aIdx = 1
    /\ aborted = "none"
    /\ Cardinality(LinesOf("CTO")) >= 2
    /\ descriptor[1] = <<"CTO", "45">>
    /\ compile_timeout = 10

\* C12: reading the same descriptor again, into a new temp_fixed, leaves the
\* timeout, the executable, the distributed flag, the listing of temp_fixed and
\* the outcome as the reading before left them.
C12_ParsingIsIdempotent ==
    [][(aIdx >= 1 /\ aIdx' = aIdx + 1)
          => /\ compile_timeout' = compile_timeout
             /\ executable' = executable
             /\ has_distributed_tests' = has_distributed_tests
             /\ fixed_files' = fixed_files
             /\ aborted' = aborted]_vars

\* A descriptor with a CTO line has been read twice without an exception.
C12_Witness ==
    /\ aIdx = 2
    /\ aborted = "none"
    /\ "CTO" \in directives

\* Line i of the descriptor is a Z line whose archive the folder holds once.
Fetches(i) ==
    /\ i \in LinesOf("Z")
    /\ get_file(FolderFiles, Join(Tail(descriptor[i]))) = "None"

\* Line i is such a line and its archive holds file_name.
Supplies(i, file_name) ==
    /\ Fetches(i)
    /\ file_name \in ZipContents(Join(Tail(descriptor[i])))

\* The descriptor has USING lines, and nothing but USING lines that name a file
\* one of its Z lines supplies and Z lines whose archive the folder holds once.
ArchiveAndUsingOnly ==
    /\ LinesOf("USING") # {}
    /\ \A i \in DOMAIN descriptor :
          \/ /\ i \in LinesOf("USING")
             /\ \E z \in DOMAIN descriptor : Supplies(z, descriptor[i][2])
          \/ Fetches(i)

\* Every USING line comes after a Z line that supplies its file.
ArchiveComesFirst ==
    \A i \in LinesOf("USING") :
        \E z \in 1..(i - 1) : Supplies(z, descriptor[i][2])

\* C17 as stated: a descriptor of Z lines and USING lines for the files they
\* supply is read without an exception and leaves the executable its last USING
\* line names, whatever the order of the lines.
C17_Original ==
    (aIdx >= 1 /\ ArchiveAndUsingOnly)
        => /\ aborted = "none"
           /\ executable = descriptor[Last(LinesOf("USING"))][2]

\* C17 as amended: it does so when every USING line comes after a Z line that
\* supplies its file; otherwise get_valid_test_file raises at the USING line.
C17_UsingNeedsArchiveBefore ==
    (aIdx >= 1 /\ ArchiveAndUsingOnly)
        => IF ArchiveComesFirst
           THEN /\ aborted = "none"
                /\ executable = descriptor[Last(LinesOf("USING"))][2]
           ELSE /\ aborted = "prepare"
                /\ pc = "parse"
                /\ missing_executable # {}

\* Z extra.zip followed by USING run.sh has been read: run.sh is the executable.
C17_Witness ==
    /\ aIdx = 1
    /\ ArchiveAndUsingOnly
    /\ ArchiveComesFirst
    /\ Len(descriptor) = 2
    /\ executable = "run.sh"

\* The names the attachments fetched for the current submission hold.
StudentFiles == UNION {AttachmentFiles(events[i].arg) : i \in Calls("download")}

\* C13: when the evaluation command runs, every attachment was fetched and
\* unpacked before the fixed files were copied, and that copy was made before the
\* command; tmpdir holds the fixed version of every name temp_fixed has, the
\* student's file for every other name the attachments hold, and nothing else.
C13_FixedFilesWin ==
    Calls("command") # {}
        => /\ \A c \in Calls("command") : \A d \in Calls("download") :
                  \E k \in Calls("copy_fixed") : d < k /\ k < c
           /\ \A n \in fixed_files :
                  File(n, "fixed") \in workdir /\ File(n, "student") \notin workdir
           /\ \A n \in StudentFiles \ fixed_files : File(n, "student") \in workdir
           /\ \A f \in workdir : f.name \in fixed_files \cup StudentFiles

\* The command ran on a tmpdir for which the attachments and temp_fixed both held
\* run.sh and testcases.txt, and the attachments alone main.c.
C13_Witness ==
    /\ pc = "reporting"
    /\ Calls("command") # {}
    /\ {"run.sh", "testcases.txt"} \subseteq (fixed_files \cap StudentFiles)
    /\ "main.c" \in StudentFiles \ fixed_files

\* Where grade_submissions stands while it grades one submission, between the
\* making of its tmpdir (line 178) and the end of that with block.
InSubmission == {"grading", "reporting", "reported"}

\* C14: for a submission that is graded the evaluation command is run at most
\* once, the submission is not left before its report has been made (said,
\* posted, or tried and refused), and a report once made is not made again.
C14_OneRunOneReport ==
    [][/\ Cardinality(Calls("command")) <= 1
       /\ (pc \in InSubmission /\ pc' \notin InSubmission) => report.status # "none"
       /\ (report.status # "none" /\ report' # report) => report'.status = "none"]_vars

\* C15: the tmpdir of a submission exists while the submission is graded and at
\* no other time, whichever way the grading ended; with copy_tmpdir set the copy
\* has been made when the report is, while tmpdir still exists, and without it no
\* copy is made.
C15_TmpdirRemovedOnEveryPath ==
    /\ pc \in InSubmission <=> "tmpdir" \in tmpdirs
    /\ pc \in {"skipping", "exited", "assignments", "done"} => tmpdirs = {}
    /\ pc = "reported"
          => /\ config.copy_tmpdir <=> Calls("copytree") # {}
             /\ \A k \in Calls("copytree") : k = Len(events)
    /\ pc \in {"grading", "reporting"} => Calls("copytree") = {}

\* The loop is back at line 175 after a submission whose grading raised and whose
\* tmpdir was to be kept: the copy was made and tmpdir is gone.
C15_Witness ==
    /\ pc = "submissions"
    /\ hadFailure
    /\ config.copy_tmpdir
    /\ sIdx = 1
    /\ tmpdirs = {"temp_fixed"}

\* C16: once evaluate has dealt with a child process that outlasted the timeout,
\* the precommand or the evaluation command, no child process it started runs.
C16_TimedOutChildIsKilled ==
    (pc \in {"reporting", "reported"}
        /\ (evaluation.cmd = "timeout" \/ evaluation.raised = "TimeoutExpired"))
        => evaluation.running = {}

\* C18: when the precommand has written to stderr, evaluate raises there: the
\* precommand is the last call evaluate makes for the submission (no evaluation
\* command, no marking inactive, no distributed pass) and the error is caught at
\* line 196.
C18_PrecommandStderrAborts ==
    \A i \in Calls("precommand") :
        events[i].arg = "stderr"
            => /\ \A j \in DOMAIN events : j > i => events[j].op = "copytree"
               /\ Calls("command") \cup Calls("mark_inactive") \cup Calls("distributed") = {}
               /\ evaluation.cmd = "none"
               /\ evaluation.raised = errorWithException
               /\ caught = errorWithException
               /\ pc \in {"reporting", "reported"}

\* The precommand wrote to stderr for an assignment with distributed tests.
C18_Witness ==
    /\ pc = "reporting"
    /\ has_distributed_tests
    /\ \E i \in Calls("precommand") : events[i].arg = "stderr"

\* C19: when the post of a report raises, the exception goes no further than the
\* warning of line 213 (it never reaches the except of line 215): the run goes on, the evaluation command has run at most
\* once, and the next step is the loop of line 175 going on with the same
\* assignment, this submission's tmpdir removed.
C19_PostFailureIsOnlyWarned ==
    [][/\ aborted' # "post"
       /\ (report.status = "not posted" \/ report'.status = "not posted")
          => /\ aborted' = "none"
             /\ exit_code' = -1
             /\ aIdx' = aIdx
             /\ sIdx' = sIdx
             /\ Cardinality(Calls("command")) <= 1
             /\ report.status = "not posted"
                   => /\ pc' = "submissions"
                      /\ tmpdirs' = {"temp_fixed"}
             /\ report'.status = "not posted"
                   => /\ pc' = "reported"
                      /\ evaluation' = evaluation
                      /\ Calls("command")' = Calls("command")]_vars

\* The post for the first submission of the first assignment raised after its
\* command had run.
C19_Witness ==
    /\ report.status = "not posted"
    /\ pc = "reported"
    /\ Calls("command") # {}
    /\ sIdx < MaxSubmissions
    /\ aIdx < MaxAssignments

\* The comment the run before this one posted: the last of the submission.
PostedBefore == sub.submission_comments[Len(sub.submission_comments)]

\* C20: a run that follows one which posted its report, the report created after
\* submitted_at and the submission not submitted again, passes the submission
\* over unless forced: it runs nothing and posts nothing.
C20_PostedReportIsNotRepeated ==
    (pass >= 2 /\ PostedBefore.created_at > sub.submitted_at)
        => /\ startswith(PostedBefore.comment, AGMarker)
           /\ (pc # "check" /\ ~config.force) => PassedOver

\* The second run has passed over a submission that had no comment before the
\* first run posted its report.
C20_Witness ==
    /\ pass = 2
    /\ pc = "submissions"
    /\ ~config.force
    /\ Len(sub.submission_comments) = 1
    /\ PostedBefore.created_at > sub.submitted_at

\* C21: a submission without attachments is passed over, forced or not, with or
\* without an automated-grade comment: nothing is run and nothing is posted.
C21_NoAttachmentsNeverGraded ==
    (pc # "check" /\ ~sub.attachments) => PassedOver

\* A forced run has passed over a submission that has neither attachments nor
\* comments.
C21_Witness ==
    /\ pc = "submissions"
    /\ sIdx = 1
    /\ config.force
    /\ ~sub.attachments
    /\ sub.submission_comments = <<>>

\* C22: for an assignment whose descriptor has no USING line, the evaluation
\* command is built with the default entry point, whatever self.executable an
\* earlier assignment left.
C22_ExecutableDoesNotLeak ==
    "USING" \notin directives
        => \A i \in Calls("command") : events[i].arg = DefaultEntryPoint

\* The command of a later assignment, whose descriptor has no USING line, has run.
C22_Witness ==
    /\ aIdx >= 2
    /\ "USING" \notin directives
    /\ pc = "reporting"
    /\ \E i \in Calls("command") : events[i].arg = DefaultEntryPoint

====
